---- MODULE Spec2Model ----
(***************************************************************************)
(* A model of streamlit.py: the loader (left join of the sector sheet onto *)
(* the financial sheet), the growth calculator, the sector aggregator and  *)
(* the rerun-on-interaction page of main().                                *)
(*                                                                         *)
(* Numbers are exact rationals n/d; the rounding of Python's floats is not *)
(* modelled.  Column names and keys are the strings of the source.         *)
(***************************************************************************)
EXTENDS Integers, Sequences, FiniteSets, TLC

VARIABLES
    uploaded_file,              \* st.file_uploader's value: NoFile or a workbook
    metrics_widget,             \* state of the "Select Metrics" widget
    sectors_widget,             \* state of the "Select Sectors" widget
    financial_df,               \* main's locals, as the last run of the script left them
    growth_df,
    sector_growth_df,
    selected_metrics,
    selected_sectors,
    filtered_growth_df,
    filtered_sector_growth_df,
    page,                       \* what the last run rendered: "prompt", "dashboard", "error"
    exception,                  \* the exception that ended the last run ("" when none)
    ran                         \* the pipeline steps the last run called

vars == <<uploaded_file, metrics_widget, sectors_widget, financial_df, growth_df,
          sector_growth_df, selected_metrics, selected_sectors, filtered_growth_df,
          filtered_sector_growth_df, page, exception, ran>>

(***************************************************************************)
(* Values: a spreadsheet cell or a computed float.  k is "num" (n/d),      *)
(* "nan" (missing), "str" (the text s), "None", "inf", or "raise" (the     *)
(* exception s an expression raised instead of yielding a value).          *)
(***************************************************************************)
Num(v) == [k |-> "num", n |-> v, d |-> 1, s |-> ""]
Text(str) == [k |-> "str", n |-> 0, d |-> 1, s |-> str]
NaN == [k |-> "nan", n |-> 0, d |-> 1, s |-> ""]
None == [k |-> "None", n |-> 0, d |-> 1, s |-> ""]
Inf == [k |-> "inf", n |-> 0, d |-> 1, s |-> ""]
Raising(e) == [k |-> "raise", n |-> 0, d |-> 1, s |-> e]

\* pd.isna
isna(x) == x.k = "nan" \/ x.k = "None"
IsNum(x) == x.k = "num"
Raised(x) == x.k = "raise"

Abs(x) == IF x < 0 THEN -x ELSE x

RECURSIVE GCD(_, _)
GCD(a, b) == IF b = 0 THEN a ELSE GCD(b, a % b)

\* the rational num/den in lowest terms with a positive denominator
Rat(num, den) ==
    LET g == GCD(Abs(num), Abs(den))
        sgn == IF den < 0 THEN -1 ELSE 1
    IN  [k |-> "num", n |-> sgn * (num \div g), d |-> sgn * (den \div g), s |-> ""]

RatAdd(a, b) == Rat(a.n * b.d + b.n * a.d, a.d * b.d)
RatSub(a, b) == Rat(a.n * b.d - b.n * a.d, a.d * b.d)
RatMul(a, b) == Rat(a.n * b.n, a.d * b.d)
RatDiv(a, b) == Rat(a.n * b.d, a.d * b.n)
RatLeq(a, b) == a.n * b.d <= b.n * a.d

RECURSIVE RatSum(_)
RatSum(seq) == IF seq = <<>> THEN Num(0) ELSE RatAdd(Head(seq), RatSum(Tail(seq)))

\* f itself, computed once: TLC computes a function constructor anew at each
\* application unless something has enumerated it
Eager(f) == f @@ f

RECURSIVE Flatten(_)
Flatten(seqs) == IF seqs = <<>> THEN <<>> ELSE Head(seqs) \o Flatten(Tail(seqs))

Range(seq) == {seq[i] : i \in 1..Len(seq)}

(***************************************************************************)
(* The uploaded workbook: its number of sheets, the first sheet (header    *)
(* columns and rows, a row being a function from column name to cell) and  *)
(* the headerless second sheet (rows of cells).                            *)
(***************************************************************************)
NoFile == [sheets |-> 0, columns |-> {}, rows |-> <<>>, sector_rows |-> <<>>]

\* the result of a call: a table, or the exception it raised
Ok(cols, rws) == [columns |-> cols, rows |-> rws, ok |-> TRUE, err |-> ""]
Raise(e) == [columns |-> {}, rows |-> <<>>, ok |-> FALSE, err |-> e]
NotRun == [columns |-> {}, rows |-> <<>>, ok |-> FALSE, err |-> "not run"]

\* the columns main() expects in the first sheet
AllColumns ==
    {"Exchange:Ticker", "Company Name",
     "Total Revenue [LTM - 16]", "Total Revenue [LTM - 12]", "Total Revenue [LTM - 8]",
     "Total Revenue [LTM - 4]", "Total Revenue [LTM]",
     "Net Income [LTM - 16]", "Net Income [LTM - 12]", "Net Income [LTM - 8]",
     "Net Income [LTM - 4]", "Net Income [LTM]",
     "EBITDA [LTM - 16]", "EBITDA [LTM - 12]", "EBITDA [LTM - 8]", "EBITDA [LTM - 4]",
     "EBITDA [LTM]"}

MetricColumns == AllColumns \ {"Exchange:Ticker", "Company Name"}

metrics ==
    [Total_Revenue |-> <<"Total Revenue [LTM - 16]", "Total Revenue [LTM - 12]",
                         "Total Revenue [LTM - 8]", "Total Revenue [LTM - 4]",
                         "Total Revenue [LTM]">>,
     Net_Income    |-> <<"Net Income [LTM - 16]", "Net Income [LTM - 12]",
                         "Net Income [LTM - 8]", "Net Income [LTM - 4]",
                         "Net Income [LTM]">>,
     EBITDA        |-> <<"EBITDA [LTM - 16]", "EBITDA [LTM - 12]",
                         "EBITDA [LTM - 8]", "EBITDA [LTM - 4]", "EBITDA [LTM]">>]

\* metrics.items() iterates in insertion order
MetricNames == <<"Total_Revenue", "Net_Income", "EBITDA">>

\* the keys of the dict calculate_growth_rates builds for one row, in the order the code sets them
GrowthColumns ==
    {"Ticker", "Company_Name", "Sector",
     "Total_Revenue_Growth_Rates", "Total_Revenue_Avg_Growth",
     "Net_Income_Growth_Rates", "Net_Income_Avg_Growth",
     "EBITDA_Growth_Rates", "EBITDA_Avg_Growth"}

\* range(1, len(columns)) as 1-based slots: slot i reads columns[i] and columns[i + 1]
SlotRange(columns) == 1..(Len(columns) - 1)

(***************************************************************************)
(* load_and_preprocess_data                                                *)
(***************************************************************************)
\* pd.read_excel(..., header=None): the width of the second sheet
SectorWidth(file) == IF file.sector_rows = <<>> THEN 0 ELSE Len(file.sector_rows[1])

\* sector_df.columns = ['Ticker', 'Sector']
sector_df_rows(file) ==
    [i \in 1..Len(file.sector_rows) |->
        [Ticker |-> file.sector_rows[i][1], Sector |-> file.sector_rows[i][2]]]

\* merge suffixes a column name both frames hold: "_x" on the left, "_y" on the right
LeftName(c) ==
    IF c = "Ticker" THEN "Ticker_x" ELSE IF c = "Sector" THEN "Sector_x" ELSE c

RightName(c, leftcols) ==
    IF c \notin leftcols THEN c ELSE IF c = "Ticker" THEN "Ticker_y" ELSE "Sector_y"

MergedColumns(leftcols) ==
    {LeftName(c) : c \in leftcols}
        \cup {RightName("Ticker", leftcols), RightName("Sector", leftcols)}

JoinRow(l, r, leftcols) ==
    Eager([c \in MergedColumns(leftcols) |->
        IF \E lc \in leftcols : LeftName(lc) = c
        THEN l[CHOOSE lc \in leftcols : LeftName(lc) = c]
        ELSE IF c = RightName("Ticker", leftcols) THEN r.Ticker ELSE r.Sector])

\* how='left': the right rows whose key equals the left row's, in right order;
\* without any, the left row is kept once with missing right columns
Matches(l, right) ==
    LET m == SelectSeq(right, LAMBDA r : r.Ticker = l["Exchange:Ticker"])
    IN  IF m = <<>> THEN <<[Ticker |-> NaN, Sector |-> NaN]>> ELSE m

\* financial_df.merge(sector_df, left_on='Exchange:Ticker', right_on='Ticker', how='left')
merge(leftcols, left, right) ==
    Flatten([i \in 1..Len(left) |->
        LET m == Matches(left[i], right)
        IN  [j \in 1..Len(m) |-> JoinRow(left[i], m[j], leftcols)]])

load_and_preprocess_data(file) ==
    IF file.sheets < 2 THEN Raise("ValueError: Worksheet index 1 is invalid")
    ELSE IF SectorWidth(file) # 2 THEN Raise("ValueError: Length mismatch")
    ELSE IF "Exchange:Ticker" \notin file.columns THEN Raise("KeyError: Exchange:Ticker")
    ELSE Ok(MergedColumns(file.columns),
            merge(file.columns, file.rows, sector_df_rows(file)))

(***************************************************************************)
(* calculate_growth_rates                                                  *)
(***************************************************************************)
\* row[column]: the cell, or KeyError when the row has no such column
Lookup(row, c) == IF c \in DOMAIN row THEN row[c] ELSE Raising("KeyError")

\* current_value - previous_value raises TypeError when either is text
Growth(current_value, previous_value) ==
    IF ~IsNum(current_value) \/ ~IsNum(previous_value) THEN Raising("TypeError")
    ELSE RatMul(RatDiv(RatSub(current_value, previous_value), previous_value), Num(100))

\* numpy floats divide by zero without raising: the quotient is infinite
GrowthOrInf(current_value, previous_value) ==
    IF IsNum(previous_value) /\ previous_value.n = 0 THEN Inf
    ELSE Growth(current_value, previous_value)

SlotBodyNoZeroCheck(row, columns, i) ==
    LET current_value == Lookup(row, columns[i + 1])
        previous_value == Lookup(row, columns[i])
    IN  IF Raised(current_value) THEN current_value
        ELSE IF Raised(previous_value) THEN previous_value
        ELSE IF isna(current_value) \/ isna(previous_value) THEN None
        ELSE GrowthOrInf(current_value, previous_value)

SlotBodyOverCurrent(row, columns, i) ==
    LET current_value == Lookup(row, columns[i + 1])
        previous_value == Lookup(row, columns[i])
    IN  IF Raised(current_value) THEN current_value
        ELSE IF Raised(previous_value) THEN previous_value
        ELSE IF isna(current_value) \/ isna(previous_value) \/ previous_value = Num(0)
             THEN None
        ELSE IF current_value = Num(0) THEN Inf
        ELSE IF ~IsNum(current_value) \/ ~IsNum(previous_value) THEN Raising("TypeError")
        ELSE RatMul(RatDiv(RatSub(current_value, previous_value), current_value), Num(100))

\* the body of the try block, lines 46-54
SlotBody(row, columns, i) ==
    LET current_value == Lookup(row, columns[i + 1])
        previous_value == Lookup(row, columns[i])
    IN  IF Raised(current_value) THEN current_value
        ELSE IF Raised(previous_value) THEN previous_value
        ELSE IF isna(current_value) \/ isna(previous_value) \/ previous_value = Num(0)
             THEN None
        ELSE Growth(current_value, previous_value)

\* the loop body without its except clause
SlotNoExcept(row, columns, i) == SlotBody(row, columns, i)

\* try ... except Exception: growth_rates.append(None)
Slot(row, columns, i) ==
    LET g == SlotBody(row, columns, i) IN IF Raised(g) THEN None ELSE g

\* growth_rates after the loop of line 44
growth_rates_of(row, columns) ==
    Eager([i \in SlotRange(columns) |-> Slot(row, columns, i)])

\* a mean that counts an undefined slot as zero
MeanNoneAsZero(rates) ==
    IF \E i \in 1..Len(rates) : ~IsNum(rates[i]) /\ rates[i] # None THEN NaN
    ELSE RatDiv(RatSum(SelectSeq(rates, LAMBDA g : g # None)), Num(Len(rates)))

\* np.mean([g for g in growth_rates if g is not None]); the mean of [] is nan
avg_growth_of(rates) ==
    LET defined == SelectSeq(rates, LAMBDA g : g # None)
    IN  IF defined = <<>> THEN NaN
        ELSE IF \E i \in 1..Len(defined) : ~IsNum(defined[i]) THEN Inf
        ELSE RatDiv(RatSum(defined), Num(Len(defined)))

\* f'{metric_name}_Growth_Rates' and f'{metric_name}_Avg_Growth'
RatesKey ==
    [Total_Revenue |-> "Total_Revenue_Growth_Rates", Net_Income |-> "Net_Income_Growth_Rates",
     EBITDA |-> "EBITDA_Growth_Rates"]

AvgKey ==
    [Total_Revenue |-> "Total_Revenue_Avg_Growth", Net_Income |-> "Net_Income_Avg_Growth",
     EBITDA |-> "EBITDA_Avg_Growth"]

\* the dict built for one row, lines 36-62
company_growth(row) ==
    LET rates == Eager([j \in 1..Len(MetricNames) |->
                            growth_rates_of(row, metrics[MetricNames[j]])])
    IN  Eager([c \in GrowthColumns |->
            IF c = "Ticker" THEN row["Exchange:Ticker"]
            ELSE IF c = "Company_Name" THEN row["Company Name"]
            ELSE IF c = "Sector" THEN row["Sector"]
            ELSE LET j == CHOOSE j \in 1..Len(MetricNames) :
                              c \in {RatesKey[MetricNames[j]], AvgKey[MetricNames[j]]}
                 IN  IF c = RatesKey[MetricNames[j]] THEN rates[j]
                     ELSE avg_growth_of(rates[j])])

\* the KeyError of lines 37-39 that ends the call at this row
RowError(row) ==
    IF "Exchange:Ticker" \notin DOMAIN row THEN "KeyError: Exchange:Ticker"
    ELSE IF "Company Name" \notin DOMAIN row THEN "KeyError: Company Name"
    ELSE IF "Sector" \notin DOMAIN row THEN "KeyError: Sector"
    ELSE ""

\* an exception no except clause caught leaves the function
Escaped(growth) ==
    \E j \in 1..Len(MetricNames) : \E i \in DOMAIN growth[RatesKey[MetricNames[j]]] :
        Raised(growth[RatesKey[MetricNames[j]]][i])

\* pd.DataFrame(company_growth_data); pd.DataFrame([]) has no columns
calculate_growth_rates(df) ==
    IF \E i \in 1..Len(df.rows) : RowError(df.rows[i]) # ""
    THEN Raise(RowError(df.rows[CHOOSE i \in 1..Len(df.rows) : RowError(df.rows[i]) # ""]))
    ELSE LET company_growth_data ==
                 Eager([i \in 1..Len(df.rows) |-> company_growth(df.rows[i])])
         IN  IF \E i \in 1..Len(df.rows) : Escaped(company_growth_data[i])
             THEN Raise("exception in a slot")
             ELSE Ok(IF df.rows = <<>> THEN {} ELSE GrowthColumns, company_growth_data)

(***************************************************************************)
(* calculate_sector_growth                                                 *)
(***************************************************************************)
\* the sector labels of the model's workbooks, in the order groupby sorts its keys
SectorOrder == <<"Energy", "Tech">>

RECURSIVE Insert(_, _)
Insert(x, sorted) ==
    IF sorted = <<>> THEN <<x>>
    ELSE IF RatLeq(x, Head(sorted)) THEN <<x>> \o sorted
    ELSE <<Head(sorted)>> \o Insert(x, Tail(sorted))

RECURSIVE Sort(_)
Sort(seq) == IF seq = <<>> THEN <<>> ELSE Insert(Head(seq), Sort(Tail(seq)))

\* the middle of the values as they come, not of the sorted values
MedianUnsorted(values) ==
    LET v == SelectSeq(values, IsNum)
        len == Len(v)
    IN  IF len = 0 THEN NaN
        ELSE IF len % 2 = 1 THEN v[(len + 1) \div 2]
        ELSE RatDiv(RatAdd(v[len \div 2], v[len \div 2 + 1]), Num(2))

\* Series.median(): skips missing values; nan when none is left
median(values) ==
    LET v == Sort(SelectSeq(values, IsNum))
        len == Len(v)
    IN  IF len = 0 THEN NaN
        ELSE IF len % 2 = 1 THEN v[(len + 1) \div 2]
        ELSE RatDiv(RatAdd(v[len \div 2], v[len \div 2 + 1]), Num(2))

SectorColumns ==
    {"Sector", "Total_Revenue_Avg_Growth", "Net_Income_Avg_Growth", "EBITDA_Avg_Growth"}

\* groupby('Sector'): the keys sorted; rows with a missing key are left out (dropna=True)
GroupKeys(rws) ==
    LET labels == SelectSeq(SectorOrder,
                            LAMBDA label : \E r \in 1..Len(rws) : rws[r]["Sector"] = Text(label))
    IN  [i \in 1..Len(labels) |-> Text(labels[i])]

Group(rws, key) == SelectSeq(rws, LAMBDA r : r["Sector"] = key)

\* growth_df.groupby('Sector').agg({...: 'median'}).reset_index()
calculate_sector_growth(df) ==
    IF "Sector" \notin df.columns THEN Raise("KeyError: Sector")
    ELSE LET keys == GroupKeys(df.rows)
         IN  Ok(SectorColumns,
                Eager([i \in 1..Len(keys) |->
                    LET g == Group(df.rows, keys[i])
                    IN  Eager([c \in SectorColumns |->
                            IF c = "Sector" THEN keys[i]
                            ELSE median([r \in 1..Len(g) |-> g[r][c]])])]))

(***************************************************************************)
(* main: one run of the script                                             *)
(***************************************************************************)
MetricOptions == <<"Total Revenue", "Net Income", "EBITDA">>

\* f"{metric.replace(' ', '_')}_Avg_Growth"
metric_key(metric) ==
    IF metric = "Total Revenue" THEN "Total_Revenue_Avg_Growth"
    ELSE IF metric = "Net Income" THEN "Net_Income_Avg_Growth"
    ELSE "EBITDA_Avg_Growth"

\* a widget the last run did not render has no state
NoWidget == [present |-> FALSE, options |-> <<>>, value |-> {}]

\* Series.unique(): the distinct values in order of first appearance, missing included
unique(seq) ==
    LET first == SelectSeq([i \in 1..Len(seq) |-> i],
                           LAMBDA i : \A j \in 1..(i - 1) : seq[j] # seq[i])
    IN  [i \in 1..Len(first) |-> seq[first[i]]]

\* st.sidebar.multiselect: the widget keeps its value across runs while it is
\* rendered with the same options; otherwise it starts from its default
multiselect(widget, options, default) ==
    IF widget.present /\ widget.options = options THEN widget
    ELSE [present |-> TRUE, options |-> options, value |-> default]

\* a filter in which a missing sector matches nothing
isin_filter_drop_na(rws, selected) ==
    SelectSeq(rws, LAMBDA r : ~isna(r["Sector"]) /\ r["Sector"] \in selected)

\* df[df['Sector'].isin(selected)]: isin matches a missing value with a missing value
isin_filter(rws, selected) == SelectSeq(rws, LAMBDA r : r["Sector"] \in selected)

\* uploaded_file is not None, line 86
HasFileAlways(file) == TRUE

HasFile(file) == file # NoFile

\* One run of the script, statement by statement.  An uncaught exception ends
\* the run: the rest is not computed and no widget below it is rendered.
main(file, mw, sw) ==
    /\ uploaded_file' = file
    /\ financial_df' = IF HasFile(file) THEN load_and_preprocess_data(file) ELSE NotRun
    /\ growth_df' = IF financial_df'.ok THEN calculate_growth_rates(financial_df')
                    ELSE NotRun
    /\ sector_growth_df' = IF growth_df'.ok THEN calculate_sector_growth(growth_df')
                           ELSE NotRun
    /\ page' = IF ~HasFile(file) THEN "prompt"
               ELSE IF sector_growth_df'.ok THEN "dashboard" ELSE "error"
    /\ exception' = IF page' # "error" THEN ""
                    ELSE IF ~financial_df'.ok THEN financial_df'.err
                    ELSE IF ~growth_df'.ok THEN growth_df'.err
                    ELSE sector_growth_df'.err
    /\ ran' = IF ~HasFile(file) THEN <<>>
              ELSE IF ~financial_df'.ok THEN <<"load">>
              ELSE IF ~growth_df'.ok THEN <<"load", "growth">>
              ELSE IF ~sector_growth_df'.ok THEN <<"load", "growth", "sector">>
              ELSE <<"load", "growth", "sector", "filter">>
    /\ metrics_widget' = IF page' = "dashboard"
                         THEN multiselect(mw, MetricOptions, {"Total Revenue"})
                         ELSE NoWidget
    /\ selected_metrics' = metrics_widget'.value
    /\ sectors_widget' =
          IF page' = "dashboard"
          THEN LET options == unique([i \in 1..Len(growth_df'.rows) |->
                                         growth_df'.rows[i]["Sector"]])
               IN  multiselect(sw, options, Range(options))
          ELSE NoWidget
    /\ selected_sectors' = sectors_widget'.value
    /\ filtered_growth_df' = IF page' = "dashboard"
                             THEN isin_filter(growth_df'.rows, selected_sectors')
                             ELSE <<>>
    /\ filtered_sector_growth_df' = IF page' = "dashboard"
                                    THEN isin_filter(sector_growth_df'.rows, selected_sectors')
                                    ELSE <<>>

\* tab3: filtered_growth_df[['Ticker', 'Sector'] + keys of the selected metrics]
company_summary ==
    [i \in 1..Len(filtered_growth_df) |->
        [c \in {"Ticker", "Sector"} \cup {metric_key(x) : x \in selected_metrics} |->
            filtered_growth_df[i][c]]]

(***************************************************************************)
(* The user's interactions, each followed by a run of the script           *)
(***************************************************************************)
Init ==
    /\ uploaded_file = NoFile
    /\ metrics_widget = NoWidget
    /\ sectors_widget = NoWidget
    /\ financial_df = NotRun
    /\ growth_df = NotRun
    /\ sector_growth_df = NotRun
    /\ selected_metrics = {}
    /\ selected_sectors = {}
    /\ filtered_growth_df = <<>>
    /\ filtered_sector_growth_df = <<>>
    /\ page = "prompt"
    /\ exception = ""
    /\ ran = <<>>

\* a workbook is dropped on the uploader (the first, or one replacing another)
Upload(file) ==
    /\ file # NoFile
    /\ file # uploaded_file
    /\ main(file, metrics_widget, sectors_widget)

\* the uploaded workbook is removed
RemoveFile ==
    /\ uploaded_file # NoFile
    /\ main(NoFile, metrics_widget, sectors_widget)

SelectMetrics(selection) ==
    /\ metrics_widget.present
    /\ selection \subseteq Range(metrics_widget.options)
    /\ selection # metrics_widget.value
    /\ main(uploaded_file, [metrics_widget EXCEPT !.value = selection], sectors_widget)

SelectSectors(selection) ==
    /\ sectors_widget.present
    /\ selection \subseteq Range(sectors_widget.options)
    /\ selection # sectors_widget.value
    /\ main(uploaded_file, metrics_widget, [sectors_widget EXCEPT !.value = selection])

(***************************************************************************)
(* Workbooks the model uploads                                             *)
(***************************************************************************)
\* the five snapshots of one metric, oldest first
Series(a, b, c, e, f) == <<a, b, c, e, f>>

\* a first-sheet row from its ticker, name and one series per metric
MkRow(ticker, name, series) ==
    Eager([c \in AllColumns |->
        IF c = "Exchange:Ticker" THEN Text(ticker)
        ELSE IF c = "Company Name" THEN Text(name)
        ELSE LET j == CHOOSE j \in 1..Len(MetricNames) : c \in Range(metrics[MetricNames[j]])
                 i == CHOOSE i \in 1..Len(metrics[MetricNames[j]]) :
                          metrics[MetricNames[j]][i] = c
             IN  series[MetricNames[j]][i]])

\* the row with the snapshots of one metric replaced
SetSeries(row, m, snapshots) ==
    Eager([c \in DOMAIN row |->
        IF c \in Range(metrics[m])
        THEN snapshots[CHOOSE i \in 1..Len(metrics[m]) : metrics[m][i] = c]
        ELSE row[c]])

Workbook(rws, lookup) ==
    [sheets |-> 2, columns |-> AllColumns, rows |-> rws, sector_rows |-> lookup]

\* the workbook without some columns of its first sheet
Without(file, cols) ==
    [file EXCEPT !.columns = @ \ cols,
                 !.rows = Eager([i \in 1..Len(@) |->
                              Eager([c \in (DOMAIN @[i]) \ cols |-> @[i][c]])])]

\* the workbook with one more first-sheet column, holding the same cell in every row
WithColumn(file, col, cell) ==
    [file EXCEPT !.columns = @ \cup {col},
                 !.rows = Eager([i \in 1..Len(@) |->
                              Eager([c \in (DOMAIN @[i]) \cup {col} |->
                                  IF c = col THEN cell ELSE @[i][c]])])]

\* Three companies.  The revenue of the first is 100, 110, missing, 121, 133.1;
\* its net income is 0, 50, 55, 60, 66.
Profiles ==
    << [Total_Revenue |-> Series(Num(100), Num(110), NaN, Num(121), Rat(1331, 10)),
        Net_Income    |-> Series(Num(0), Num(50), Num(55), Num(60), Num(66)),
        EBITDA        |-> Series(Num(-100), Num(-50), Num(0), Num(50), Text("-"))],
       [Total_Revenue |-> Series(Num(100), Num(120), Num(144), NaN, NaN),
        Net_Income    |-> Series(NaN, NaN, NaN, NaN, NaN),
        EBITDA        |-> Series(Num(5), Num(10), NaN, NaN, NaN)],
       [Total_Revenue |-> Series(Num(0), Num(0), NaN, Text("-"), Num(5)),
        Net_Income    |-> Series(Num(200), Num(100), Num(100), Num(50), Num(50)),
        EBITDA        |-> Series(Num(10), Num(20), Num(10), Num(20), Num(10))] >>

Tickers == <<"AAA", "BBB", "CCC", "XYZ">>
Names == <<"AAA Ltd", "BBB Ltd", "CCC Ltd", "XYZ Ltd">>

SectorLookup == << <<Text("AAA"), Text("Tech")>>, <<Text("BBB"), Text("Tech")>>,
                   <<Text("CCC"), Text("Energy")>> >>

Cycle(seq, i) == seq[((i - 1) % Len(seq)) + 1]

\* the i-th company of a workbook, with ticker number t
Company(i, t) == MkRow(Tickers[t], Names[t], Cycle(Profiles, i))

\* the cells a snapshot may hold in the workbooks of SpecGrowth
Vals == <<NaN, Text("-"), Num(0), Num(30)>>

\* the sector cells of the lookups of SpecSector
SectorCells == <<Text("Energy"), Text("Tech")>>

MaxPageRows == 4
MaxGrowthRows == 2
MaxRows == 3
MaxSectorRows == 2

(***************************************************************************)
(* Spec: the page, over well-formed and damaged workbooks                  *)
(***************************************************************************)
Damages == {"none", "one_sheet", "three_sheets", "sector_sheet_three_columns",
            "no_ticker_column", "no_name_column", "no_snapshot_column",
            "no_snapshot_columns", "own_sector_column", "own_ticker_column"}

PageBase(len) == Workbook([i \in 1..len |-> Company(i, ((i - 1) % Len(Tickers)) + 1)],
                          SectorLookup)

Damage(file, dmg) ==
    IF dmg = "one_sheet" THEN [file EXCEPT !.sheets = 1, !.sector_rows = <<>>]
    ELSE IF dmg = "three_sheets" THEN [file EXCEPT !.sheets = 3]
    ELSE IF dmg = "sector_sheet_three_columns"
         THEN [file EXCEPT !.sector_rows = [i \in 1..Len(@) |-> Append(@[i], NaN)]]
    ELSE IF dmg = "no_ticker_column" THEN Without(file, {"Exchange:Ticker"})
    ELSE IF dmg = "no_name_column" THEN Without(file, {"Company Name"})
    ELSE IF dmg = "no_snapshot_column" THEN Without(file, {"EBITDA [LTM - 8]"})
    ELSE IF dmg = "no_snapshot_columns" THEN Without(file, MetricColumns)
    ELSE IF dmg = "own_sector_column" THEN WithColumn(file, "Sector", Text("Tech"))
    ELSE IF dmg = "own_ticker_column" THEN WithColumn(file, "Ticker", Text("AAA"))
    ELSE file

UploadFile ==
    \E len \in 0..MaxPageRows : \E dmg \in Damages : Upload(Damage(PageBase(len), dmg))

ChangeMetrics == \E selection \in SUBSET Range(MetricOptions) : SelectMetrics(selection)

ChangeSectors ==
    \E selection \in SUBSET Range(sectors_widget.options) : SelectSectors(selection)

Next == UploadFile \/ RemoveFile \/ ChangeMetrics \/ ChangeSectors

Spec == Init /\ [][Next]_vars

(***************************************************************************)
(* SpecGrowth: the growth calculator, over every series of Vals in one     *)
(* metric of one company and over every missing snapshot column            *)
(***************************************************************************)
GrowthBase(len) == Workbook([i \in 1..len |-> Company(i, i)], SectorLookup)

IsGrowthBase(file) == \E len \in 1..MaxGrowthRows : file = GrowthBase(len)

UploadBase ==
    /\ uploaded_file = NoFile
    /\ \E len \in 1..MaxGrowthRows : Upload(GrowthBase(len))

\* the workbook is uploaded again with one metric of one company edited
ReplaceSeries ==
    /\ IsGrowthBase(uploaded_file)
    /\ \E r \in 1..Len(uploaded_file.rows) : \E j \in 1..Len(MetricNames) :
       \E v \in [1..Len(metrics[MetricNames[j]]) -> 1..Len(Vals)] :
          Upload([uploaded_file EXCEPT
                    !.rows[r] = SetSeries(@, MetricNames[j],
                                          [i \in 1..Len(metrics[MetricNames[j]]) |-> Vals[v[i]]])])

\* the workbook is uploaded again without one snapshot column
DropColumn ==
    /\ IsGrowthBase(uploaded_file)
    /\ \E c \in MetricColumns : Upload(Without(uploaded_file, {c}))

NextGrowth == UploadBase \/ ReplaceSeries \/ DropColumn \/ RemoveFile

SpecGrowth == Init /\ [][NextGrowth]_vars

(***************************************************************************)
(* SpecSector: the join and the sector aggregator, over every first sheet  *)
(* of up to MaxRows companies and every lookup of up to MaxSectorRows rows *)
(***************************************************************************)
FinTickers == <<1, 2, 4>>
LookupTickers == <<1, 2>>

UploadJoined ==
    /\ uploaded_file = NoFile
    /\ \E len \in 1..MaxRows : \E k \in 1..MaxSectorRows :
       \E t \in [1..len -> Range(FinTickers)] :
       \E lt \in [1..k -> Range(LookupTickers)] : \E ls \in [1..k -> 1..Len(SectorCells)] :
          Upload(Workbook([i \in 1..len |-> Company(i, t[i])],
                          [i \in 1..k |-> <<Text(Tickers[lt[i]]), SectorCells[ls[i]]>>]))

NextSector == UploadJoined \/ RemoveFile

SpecSector == Init /\ [][NextSector]_vars


(***************************************************************************)
(* Properties of calculate_growth_rates, checked under SpecGrowth          *)
(***************************************************************************)
\* the cell of row r of the uploaded first sheet under column c
Cell(file, r, c) == Lookup(file.rows[r], c)

\* the slots and the average the last run computed for metric j of row r
RatesOf(df, r, j) == df.rows[r][RatesKey[MetricNames[j]]]
AvgOf(df, r, j) == df.rows[r][AvgKey[MetricNames[j]]]

\* the growth table holds one record per row of the uploaded first sheet
Computed == page = "dashboard" /\ Len(growth_df.rows) = Len(uploaded_file.rows)

\* C1: for every company, metric and consecutive snapshot pair, a missing
\* current value, a missing previous value or a previous value of exactly zero
\* leaves the slot None: not a number, not infinite.
C1_UndefinedSlot ==
    Computed =>
        \A r \in 1..Len(uploaded_file.rows) : \A j \in 1..Len(MetricNames) :
        \A i \in 1..(Len(metrics[MetricNames[j]]) - 1) :
            LET previous == Cell(uploaded_file, r, metrics[MetricNames[j]][i])
                current == Cell(uploaded_file, r, metrics[MetricNames[j]][i + 1])
            IN  (isna(current) \/ isna(previous) \/ (IsNum(previous) /\ previous.n = 0))
                    => RatesOf(growth_df, r, j)[i] = None

\* a previous value of zero under a present, non-zero current value gave None
C1_Witness ==
    /\ Computed
    /\ \E r \in 1..Len(uploaded_file.rows) : \E j \in 1..Len(MetricNames) : \E i \in 1..4 :
          LET previous == Cell(uploaded_file, r, metrics[MetricNames[j]][i])
              current == Cell(uploaded_file, r, metrics[MetricNames[j]][i + 1])
          IN  /\ previous = Num(0)
              /\ IsNum(current) /\ current.n # 0
              /\ RatesOf(growth_df, r, j)[i] = None

\* g = (current - previous) / previous * 100, over the integers
IsGrowthOf(g, current, previous) ==
    /\ IsNum(g)
    /\ g.n * current.d * previous.n
          = (current.n * previous.d - previous.n * current.d) * 100 * g.d

\* the revenue snapshots of the scenario, oldest first
ScenarioSnapshots == <<Num(100), Num(110), NaN, Num(121), Rat(1331, 10)>>

RECURSIVE Denominators(_, _)
Denominators(rates, i) ==
    IF i = 0 THEN 1
    ELSE (IF IsNum(rates[i]) THEN rates[i].d ELSE 1) * Denominators(rates, i - 1)

\* the sum of the defined slots among the first i, as a numerator over den
RECURSIVE Numerators(_, _, _)
Numerators(rates, i, den) ==
    IF i = 0 THEN 0
    ELSE (IF IsNum(rates[i]) THEN rates[i].n * (den \div rates[i].d) ELSE 0)
            + Numerators(rates, i - 1, den)

\* avg is the arithmetic mean of the defined slots of rates
IsMeanOf(avg, rates) ==
    LET count == Cardinality({i \in DOMAIN rates : rates[i] # None})
        den == Denominators(rates, Len(rates))
    IN  /\ IsNum(avg)
        /\ avg.n * count * den = Numerators(rates, Len(rates), den) * avg.d

\* C3: the average growth of a metric is the arithmetic mean of exactly its
\* defined slots; with all four slots undefined the average is undefined (nan),
\* not zero and not an error.
C3_AverageOfDefined ==
    Computed =>
        \A r \in 1..Len(uploaded_file.rows) : \A j \in 1..Len(MetricNames) :
            LET rates == RatesOf(growth_df, r, j)
            IN  IF \A i \in DOMAIN rates : rates[i] = None
                THEN AvgOf(growth_df, r, j) = NaN
                ELSE IsMeanOf(AvgOf(growth_df, r, j), rates)

\* one metric averaged over two defined slots out of four, another had none
C3_Witness ==
    /\ Computed
    /\ \E r \in 1..Len(uploaded_file.rows) :
          /\ RatesOf(growth_df, r, 1) = <<Num(10), None, None, Num(10)>>
          /\ AvgOf(growth_df, r, 1) = Num(10)
    /\ \E r \in 1..Len(uploaded_file.rows) : \E j \in 1..Len(MetricNames) :
          /\ \A i \in 1..4 : RatesOf(growth_df, r, j)[i] = None
          /\ AvgOf(growth_df, r, j) = NaN

\* a cell whose extraction or arithmetic faults: no such column, missing, or text
Faulty(x) == Raised(x) \/ isna(x) \/ x.k = "str"

\* C7: a fault while extracting a slot's two values (a missing snapshot column,
\* a missing or non-numeric value) makes that slot undefined and never aborts
\* the calculation: from a rendered workbook to an edited one, the run still
\* renders, there is one growth record per input row in input order, a slot
\* whose two cells did not change keeps its value, a metric of a company whose
\* five cells did not change keeps its average, and a slot reading a faulty
\* cell is None.
C7_FaultIsolation ==
    [][(IsGrowthBase(uploaded_file) /\ uploaded_file' # NoFile
            /\ uploaded_file' # uploaded_file)
        => /\ page = "dashboard" /\ page' = "dashboard"
           /\ Len(growth_df'.rows) = Len(uploaded_file'.rows)
           /\ \A r \in 1..Len(uploaded_file'.rows) :
                 /\ growth_df'.rows[r]["Ticker"] = uploaded_file'.rows[r]["Exchange:Ticker"]
                 /\ \A j \in 1..Len(MetricNames) :
                       LET columns == metrics[MetricNames[j]]
                           kept(c) == Cell(uploaded_file', r, c) = Cell(uploaded_file, r, c)
                       IN  /\ \A i \in 1..4 :
                                 /\ (kept(columns[i]) /\ kept(columns[i + 1]))
                                       => RatesOf(growth_df', r, j)[i] = RatesOf(growth_df, r, j)[i]
                                 /\ (Faulty(Cell(uploaded_file', r, columns[i]))
                                        \/ Faulty(Cell(uploaded_file', r, columns[i + 1])))
                                       => RatesOf(growth_df', r, j)[i] = None
                           /\ (\A i \in 1..5 : kept(columns[i]))
                                 => AvgOf(growth_df', r, j) = AvgOf(growth_df, r, j)]_vars

\* a workbook without one snapshot column rendered, its other slots computed
C7_Witness ==
    /\ Computed
    /\ "Total Revenue [LTM - 16]" \notin uploaded_file.columns
    /\ RatesOf(growth_df, 1, 1) = <<None, None, None, Num(10)>>
    /\ AvgOf(growth_df, 1, 2) = Rat(320, 33)


(***************************************************************************)
(* Properties of load_and_preprocess_data and calculate_sector_growth,     *)
(* checked under SpecSector                                                *)
(***************************************************************************)
\* the sector values of a table's rows
SectorsOf(rws) == {rws[i]["Sector"] : i \in 1..Len(rws)}

\* C4: the sector growth table has exactly one record per distinct sector value
\* of the growth table, the undefined sector being a group of its own whenever
\* a company has an undefined sector.
C4_UndefinedSectorGroup ==
    page = "dashboard" =>
        /\ SectorsOf(sector_growth_df.rows) = SectorsOf(growth_df.rows)
        /\ Len(sector_growth_df.rows) = Cardinality(SectorsOf(growth_df.rows))

\* a < b, a <= b and a = b over the integers
Less(a, b) == a.n * b.d < b.n * a.d
AtMost(a, b) == a.n * b.d <= b.n * a.d

\* x is the k-th smallest of the numbers v[1], ..., v[Len(v)]
IsKth(x, v, k) ==
    /\ \E i \in 1..Len(v) : v[i] = x
    /\ Cardinality({i \in 1..Len(v) : Less(v[i], x)}) < k
    /\ Cardinality({i \in 1..Len(v) : AtMost(v[i], x)}) >= k

\* m is the standard median of the numbers of v
IsMedianOf(m, v) ==
    IF Len(v) % 2 = 1 THEN IsKth(m, v, (Len(v) + 1) \div 2)
    ELSE /\ IsNum(m)
         /\ \E a \in 1..Len(v) : \E b \in 1..Len(v) :
               /\ IsKth(v[a], v, Len(v) \div 2)
               /\ IsKth(v[b], v, Len(v) \div 2 + 1)
               /\ 2 * m.n * v[a].d * v[b].d = (v[a].n * v[b].d + v[b].n * v[a].d) * m.d

\* the rows of the growth table in one sector that have a number under column c
DefinedIn(sector, c) ==
    SelectSeq([i \in 1..Len(growth_df.rows) |-> i],
              LAMBDA i : growth_df.rows[i]["Sector"] = sector /\ IsNum(growth_df.rows[i][c]))

\* C5: every value of every sector record is the standard median (the mean of
\* the two middle values for an even count) of the defined averages of that
\* metric among the sector's companies; it is undefined when none is defined.
C5_SectorMedian ==
    page = "dashboard" =>
        \A s \in 1..Len(sector_growth_df.rows) : \A j \in 1..Len(MetricNames) :
            LET c == AvgKey[MetricNames[j]]
                rws == DefinedIn(sector_growth_df.rows[s]["Sector"], c)
                v == [i \in 1..Len(rws) |-> growth_df.rows[rws[i]][c]]
            IN  IF rws = <<>> THEN sector_growth_df.rows[s][c] = NaN
                ELSE IsMedianOf(sector_growth_df.rows[s][c], v)

\* Tech holds three companies whose revenue averages are 10, 20 and undefined,
\* and three EBITDA averages that do not come in sorted order
C5_Witness ==
    /\ page = "dashboard"
    /\ Len(growth_df.rows) = 3
    /\ \A i \in 1..3 : growth_df.rows[i]["Sector"] = Text("Tech")
    /\ [i \in 1..3 |-> growth_df.rows[i]["Total_Revenue_Avg_Growth"]]
          = <<Num(10), Num(20), NaN>>
    /\ [i \in 1..3 |-> growth_df.rows[i]["EBITDA_Avg_Growth"]]
          = <<Num(-75), Num(100), Num(25)>>
    /\ \E s \in 1..Len(sector_growth_df.rows) :
          /\ sector_growth_df.rows[s]["Sector"] = Text("Tech")
          /\ sector_growth_df.rows[s]["Total_Revenue_Avg_Growth"] = Num(15)
          /\ sector_growth_df.rows[s]["EBITDA_Avg_Growth"] = Num(25)

\* the tickers the sector tab holds
SectorTabTickers == {uploaded_file.sector_rows[i][1] : i \in 1..Len(uploaded_file.sector_rows)}

\* C6: the joined table has exactly the rows of the financial tab, in the same
\* number and order, none dropped and none duplicated; each carries one sector
\* value, undefined when its ticker does not occur in the sector tab.
C6_JoinKeepsRows ==
    financial_df.ok =>
        /\ Len(financial_df.rows) = Len(uploaded_file.rows)
        /\ \A i \in 1..Len(uploaded_file.rows) :
              /\ \A c \in uploaded_file.columns :
                    financial_df.rows[i][c] = uploaded_file.rows[i][c]
              /\ uploaded_file.rows[i]["Exchange:Ticker"] \notin SectorTabTickers
                    => financial_df.rows[i]["Sector"] = NaN


(***************************************************************************)
(* Properties of main, checked under Spec                                  *)
(***************************************************************************)
\* the workbook lacks a tab the loader reads or a column the page reads by name
Malformed(file) == file.sheets < 2 \/ ~(AllColumns \subseteq file.columns)

Unreadable(file) ==
    \/ file.sheets < 2
    \/ SectorWidth(file) # 2
    \/ "Exchange:Ticker" \notin file.columns
    \/ "Company Name" \notin file.columns
    \/ "Sector" \in file.columns
    \/ file.rows = <<>>

Visible(rws, selected) == {i \in 1..Len(rws) : rws[i]["Sector"] \in selected}

\* view holds exactly the rows of rws at the indices of Visible, in order
IsRowSubset(view, rws, selected) ==
    /\ Len(view) = Cardinality(Visible(rws, selected))
    /\ \A i \in Visible(rws, selected) :
          view[Cardinality({j \in Visible(rws, selected) : j <= i})] = rws[i]

\* a run caused by a change of one of the two selections
SelectionChanged ==
    /\ page = "dashboard" /\ uploaded_file' = uploaded_file
    /\ selected_metrics' # selected_metrics \/ selected_sectors' # selected_sectors

\* C9: the filtered company view holds exactly the growth records whose sector
\* is selected and the filtered sector view exactly the sector records whose
\* sector is selected, with the values of the unfiltered tables; a change of
\* the selection leaves the growth table and the sector growth table as they were.
C9_FilterIsRowSubset ==
    [][/\ page' = "dashboard" =>
             /\ IsRowSubset(filtered_growth_df', growth_df'.rows, selected_sectors')
             /\ IsRowSubset(filtered_sector_growth_df', sector_growth_df'.rows,
                            selected_sectors')
             /\ selected_sectors' \subseteq Range(sectors_widget'.options)
       /\ SelectionChanged =>
             /\ page' = "dashboard"
             /\ growth_df' = growth_df
             /\ sector_growth_df' = sector_growth_df]_vars

\* the Energy sector is deselected: three of four companies and one of two
\* sector records are visible, one of the companies without a sector
C9_Witness ==
    /\ page = "dashboard"
    /\ selected_sectors = {Text("Tech"), NaN}
    /\ selected_metrics = {"EBITDA", "Net Income"}
    /\ Len(growth_df.rows) = 4 /\ Len(filtered_growth_df) = 3
    /\ filtered_growth_df[3] = growth_df.rows[4]
    /\ filtered_growth_df[3]["Sector"] = NaN
    /\ Len(sector_growth_df.rows) = 2 /\ Len(filtered_sector_growth_df) = 1
    /\ filtered_sector_growth_df[1] = sector_growth_df.rows[2]

\* C10 as stated: without a file only the prompt is rendered and nothing runs;
\* with a file the full dashboard is rendered.
C10_AsStated ==
    /\ uploaded_file = NoFile => (page = "prompt" /\ ran = <<>>)
    /\ uploaded_file # NoFile => page = "dashboard"

\* nothing of the pipeline ran and no filter is rendered
NothingRan ==
    /\ ran = <<>>
    /\ financial_df = NotRun /\ growth_df = NotRun /\ sector_growth_df = NotRun
    /\ ~metrics_widget.present /\ ~sectors_widget.present
    /\ filtered_growth_df = <<>> /\ filtered_sector_growth_df = <<>>

\* C10, amended: without a file only the upload prompt is rendered and neither
\* the loader, the growth calculator, the sector aggregator nor the filters
\* run; with a file the pipeline runs and the full dashboard is rendered, or,
\* when the run ends in an exception, the error in its place.  The page leaves
\* the prompt only when a file is supplied, a rerun caused by a filter change
\* keeps the dashboard, and the page returns to the prompt only when the file
\* is removed.
C10_PageStates ==
    [][/\ uploaded_file' = NoFile <=> page' = "prompt"
       /\ page' = "prompt" => NothingRan'
       /\ uploaded_file' # NoFile =>
             /\ ran'[1] = "load"
             /\ page' = "dashboard" \/ page' = "error"
             /\ page' = "dashboard" <=> ran' = <<"load", "growth", "sector", "filter">>
       /\ (page = "prompt" /\ page' # "prompt")
             => (uploaded_file = NoFile /\ uploaded_file' # NoFile)
       /\ SelectionChanged => page' = "dashboard"
       /\ (page # "prompt" /\ page' = "prompt")
             => (uploaded_file # NoFile /\ uploaded_file' = NoFile)]_vars

\* the dashboard after a rerun caused by a change of the metric selection
C10_Witness ==
    /\ uploaded_file # NoFile
    /\ page = "dashboard"
    /\ ran = <<"load", "growth", "sector", "filter">>
    /\ selected_metrics = {}
    /\ Len(filtered_growth_df) = 2

====
